---------------------------- MODULE Spec2Model ----------------------------
(***************************************************************************)
(* A model of the MCS-51 decode/execute core of src/src/mcs51.rs: the CPU  *)
(* record, the operand resolver (load/store), the decoder and step().      *)
(*                                                                         *)
(* The CPU owns its memory collaborator (the Rc is assumed to be uniquely  *)
(* owned, as Rc::get_mut(..).unwrap() needs).  The collaborator is a RAM   *)
(* with a finite set of backed cells: a read of a backed cell returns the  *)
(* byte last written to it, any access to an unbacked cell and any write   *)
(* to code space is refused.  It also records the calls it receives.       *)
(*                                                                         *)
(* Arithmetic keeps the width of its Rust type.  An expression that leaves *)
(* its type's range aborts the process in a build with overflow checks and *)
(* wraps in a build without them: overflow_checks is the build at hand.    *)
(***************************************************************************)
EXTENDS Integers, Sequences, FiniteSets, TLC

VARIABLES
    cpu,              \* struct CPU, its memory collaborator included
    prev,             \* the CPU as it was when the last step() was called
    start,            \* the CPU as the driver set it up, before any step()
    outcome,          \* what the last step() returned: [res, e]
    call,             \* the last store-then-load made directly on the
                      \* resolver: [mode, data, stored, value]
    overflow_checks,  \* the build: TRUE when integer overflow panics
    steps             \* number of step() calls made so far

vars == <<cpu, prev, start, outcome, call, overflow_checks, steps>>

Byte == 0..255

(* ------------------------------ bit helpers --------------------------- *)

Pow2(n) == CASE n = 0 -> 1 [] n = 1 -> 2 [] n = 2 -> 4 [] n = 3 -> 8
             [] n = 4 -> 16 [] n = 5 -> 32 [] n = 6 -> 64 [] n = 7 -> 128
             [] n = 8 -> 256

BitOf(x, n) == (x \div Pow2(n)) % 2

\* x & y on bytes
BitAnd(x, y) ==
    BitOf(x,0)*BitOf(y,0) + 2*BitOf(x,1)*BitOf(y,1) + 4*BitOf(x,2)*BitOf(y,2)
    + 8*BitOf(x,3)*BitOf(y,3) + 16*BitOf(x,4)*BitOf(y,4)
    + 32*BitOf(x,5)*BitOf(y,5) + 64*BitOf(x,6)*BitOf(y,6)
    + 128*BitOf(x,7)*BitOf(y,7)

\* x | y on bytes
BitOr(x, y) == x + y - BitAnd(x, y)

\* `b as i8`
AsI8(b) == IF b > 127 THEN b - 256 ELSE b

\* `w as i16`
AsI16(w) == IF w > 32767 THEN w - 65536 ELSE w

\* `x as u16` of an i16 or of a wrapped sum
AsU16(x) == x % 65536

\* `x as u8`
AsU8(x) == x % 256

(* --------------------------- results of calls ------------------------- *)

\* Result<u8, &'static str>, or the process aborting, with the CPU as the
\* call left it.
Ok(s, v) == [s |-> s, res |-> "ok", v |-> v, e |-> ""]
Err(s, e) == [s |-> s, res |-> "err", v |-> 0, e |-> e]
Panic(s, e) == [s |-> s, res |-> "panic", v |-> 0, e |-> e]

\* A sum or difference computed in an integer type lo..hi: the process aborts
\* when overflow checks are on and the value leaves the range.
Overflows(x, lo, hi) == overflow_checks /\ (x < lo \/ x > hi)

(* --------------------------- types of the core ------------------------ *)

\* enum Address
Code(a) == <<"Code", a>>
ExternalData(a) == <<"ExternalData", a>>
InternalData(a) == <<"InternalData", a>>
SpecialFunctionRegister(a) == <<"SpecialFunctionRegister", a>>
BitAddress(a) == <<"Bit", a>>

\* enum AddressingMode
Immediate(v) == [k |-> "Immediate", r |-> "-", v |-> v]
Register(r) == [k |-> "Register", r |-> r, v |-> 0]
Bit(b) == [k |-> "Bit", r |-> "-", v |-> b]
NotBit(b) == [k |-> "NotBit", r |-> "-", v |-> b]
Direct(a) == [k |-> "Direct", r |-> "-", v |-> a]
Indirect(r) == [k |-> "Indirect", r |-> r, v |-> 0]
IndirectExternal(r) == [k |-> "IndirectExternal", r |-> r, v |-> 0]
IndirectCode(r) == [k |-> "IndirectCode", r |-> r, v |-> 0]
NoMode == [k |-> "-", r |-> "-", v |-> 0]

RegisterNames == <<"R0", "R1", "R2", "R3", "R4", "R5", "R6", "R7">>

register_from_opcode(id) == RegisterNames[(id % 8) + 1]

\* The index n of a register Rn.
RegisterIndex(r) == CHOOSE n \in 0..7 : RegisterNames[n + 1] = r

IsRn(r) == \E n \in 0..7 : RegisterNames[n + 1] = r

(* -------------------------- memory collaborator ----------------------- *)

\* trait Memory: cells is the backing store (its domain: the backed
\* addresses), reads counts the read_memory calls and wlog lists the
\* write_memory calls received since the log was last cleared.
read_memory(s, address) ==
    LET t == [s EXCEPT !.memory.reads = @ + 1]
    IN IF address \in DOMAIN s.memory.cells
       THEN Ok(t, s.memory.cells[address])
       ELSE Err(t, "bad address")

write_memory(s, address, data) ==
    LET t == [s EXCEPT !.memory.wlog = Append(@, <<address, data>>)]
    IN IF address \in DOMAIN s.memory.cells /\ address[1] /= "Code"
       THEN Ok([t EXCEPT !.memory.cells[address] = data], 0)
       ELSE Err(t, "bad address")

(* ------------------------------- CPU::new ----------------------------- *)

new(memory) ==
    [bank |-> 0, carry_flag |-> 0, auxillary_carry_flag |-> 0,
     overflow_flag |-> 0, accumulator |-> 0, b_register |-> 0,
     stack_pointer |-> 0, data_pointer |-> 0, program_counter |-> 0,
     memory |-> memory]

(* ------------------------------ CPU::load ----------------------------- *)

\* `self.bank << 3` in u8
BankBase(s) == (s.bank * 8) % 256

\* A faulty variant: the register is looked up one bank too far.
ReadBanked_next_bank(s, n) ==
    read_memory(s, InternalData((BankBase(s) + n + 8) % 256))

\* read_memory(InternalData(bank + n)): the sum is a u8
ReadBanked(s, n) ==
    IF Overflows(BankBase(s) + n, 0, 255)
    THEN Panic(s, "attempt to add with overflow")
    ELSE read_memory(s, InternalData((BankBase(s) + n) % 256))

\* A faulty variant: the carry is not a register the resolver loads.
LoadRegister_no_carry(s, r) ==
    CASE r = "A" -> Ok(s, s.accumulator)
      [] IsRn(r) -> ReadBanked(s, RegisterIndex(r))
      [] OTHER -> Err(s, "unsupported register")

LoadRegister(s, r) ==
    CASE r = "A" -> Ok(s, s.accumulator)
      [] r = "C" -> Ok(s, s.carry_flag)
      [] IsRn(r) -> ReadBanked(s, RegisterIndex(r))
      [] OTHER -> Err(s, "unsupported register")

LoadBit(s, bit) ==
    IF bit < 128
    THEN LET o == read_memory(s, InternalData(32 + (bit \div 8)))
         IN IF o.res /= "ok" THEN o
            ELSE Ok(o.s, IF BitOf(o.v, bit % 8) /= 0 THEN 1 ELSE 0)
    ELSE CASE bit \in 224..231 -> Ok(s, BitOf(s.accumulator, bit % 8))
           [] bit \in 240..247 -> Ok(s, BitOf(s.b_register, bit % 8))
           [] OTHER -> read_memory(s, BitAddress(bit))

LoadNotBit(s, bit) ==
    LET b == LoadBit(s, bit)
    IN IF b.res /= "ok" THEN b
       ELSE Ok(b.s, IF b.v = 1 THEN 0 ELSE 1)

LoadDirect(s, address) ==
    IF address < 128
    THEN read_memory(s, InternalData(address))
    ELSE CASE address = 129 -> Ok(s, s.stack_pointer)
           [] address = 130 -> Ok(s, s.data_pointer % 256)
           [] address = 131 -> Ok(s, (s.data_pointer \div 256) % 256)
           [] address = 224 -> Ok(s, s.accumulator)
           [] address = 240 -> Ok(s, s.b_register)
           [] OTHER -> read_memory(s, SpecialFunctionRegister(address))

LoadIndirect(s, r) ==
    IF r \in {"R0", "R1"}
    THEN LET a == ReadBanked(s, RegisterIndex(r))
         IN IF a.res /= "ok" THEN a
            ELSE read_memory(a.s, InternalData(a.v))
    ELSE Err(s, "unsupported register for indirect load")

LoadIndirectExternal(s, r) ==
    CASE r \in {"R0", "R1"} ->
           LET a == ReadBanked(s, RegisterIndex(r))
           IN IF a.res /= "ok" THEN a
              ELSE read_memory(a.s, ExternalData(a.v))
      [] r = "DPTR" -> read_memory(s, ExternalData(s.data_pointer))
      [] OTHER -> Err(s, "unsupported register for indirect load (external)")

\* A faulty variant: the accumulator is left out of the table address.
LoadIndirectCode_no_index(s, r) ==
    CASE r = "DPTR" -> read_memory(s, Code(s.data_pointer))
      [] r = "PC" -> read_memory(s, Code((s.program_counter + 1) % 65536))
      [] OTHER -> Err(s, "unsupported register for indirect load (code)")

LoadIndirectCode(s, r) ==
    CASE r = "DPTR" ->
           IF Overflows(s.data_pointer + s.accumulator, 0, 65535)
           THEN Panic(s, "attempt to add with overflow")
           ELSE read_memory(s, Code((s.data_pointer + s.accumulator) % 65536))
      [] r = "PC" ->
           IF Overflows(s.program_counter + s.accumulator, 0, 65535)
              \/ Overflows(((s.program_counter + s.accumulator) % 65536) + 1,
                           0, 65535)
           THEN Panic(s, "attempt to add with overflow")
           ELSE read_memory(s,
                  Code((s.program_counter + s.accumulator + 1) % 65536))
      [] OTHER -> Err(s, "unsupported register for indirect load (code)")

load(s, mode) ==
    CASE mode.k = "Immediate" -> Ok(s, mode.v)
      [] mode.k = "Register" -> LoadRegister(s, mode.r)
      [] mode.k = "Bit" -> LoadBit(s, mode.v)
      [] mode.k = "NotBit" -> LoadNotBit(s, mode.v)
      [] mode.k = "Direct" -> LoadDirect(s, mode.v)
      [] mode.k = "Indirect" -> LoadIndirect(s, mode.r)
      [] mode.k = "IndirectExternal" -> LoadIndirectExternal(s, mode.r)
      [] mode.k = "IndirectCode" -> LoadIndirectCode(s, mode.r)

(* ------------------------------ CPU::store ---------------------------- *)

WriteBanked(s, n, data) ==
    IF Overflows(BankBase(s) + n, 0, 255)
    THEN Panic(s, "attempt to add with overflow")
    ELSE write_memory(s, InternalData((BankBase(s) + n) % 256), data)

StoreRegister(s, r, data) ==
    CASE r = "A" -> Ok([s EXCEPT !.accumulator = data], 0)
      [] r = "C" -> Ok([s EXCEPT !.carry_flag = data], 0)
      [] IsRn(r) -> WriteBanked(s, RegisterIndex(r), data)
      [] OTHER -> Err(s, "unsupported register")

\* A faulty variant: clearing a bit clears the whole octet.
PatchBit_clears_octet(octet, n, data) ==
    IF data /= 0
    THEN octet + (1 - BitOf(octet, n)) * Pow2(n)
    ELSE 0

\* octet with bit n set (data /= 0) or cleared (data = 0)
PatchBit(octet, n, data) ==
    IF data /= 0
    THEN octet + (1 - BitOf(octet, n)) * Pow2(n)
    ELSE octet - BitOf(octet, n) * Pow2(n)

StoreBit(s, bit, data) ==
    IF bit < 128
    THEN LET o == read_memory(s, InternalData(32 + (bit \div 8)))
         IN IF o.res /= "ok" THEN o
            ELSE write_memory(o.s, InternalData(32 + (bit \div 8)),
                              PatchBit(o.v, bit % 8, data))
    ELSE write_memory(s, BitAddress(bit), 1)

\* A faulty variant: a write to the PSW (0xD0) selects the register bank
\* from bits 4..3 of the byte.
StoreDirect_psw_bank(s, address, data) ==
    IF address < 128
    THEN write_memory(s, InternalData(address), data)
    ELSE CASE address = 129 -> Ok([s EXCEPT !.stack_pointer = data], 0)
           [] address = 130 ->
                Ok([s EXCEPT !.data_pointer = (@ \div 256) * 256 + data], 0)
           [] address = 131 ->
                Ok([s EXCEPT !.data_pointer = (@ % 256) + data * 256], 0)
           [] address = 208 -> Ok([s EXCEPT !.bank = (data \div 8) % 4], 0)
           [] address = 224 -> Ok([s EXCEPT !.accumulator = data], 0)
           [] address = 240 -> Ok([s EXCEPT !.b_register = data], 0)
           [] OTHER -> write_memory(s, SpecialFunctionRegister(address), data)

StoreDirect(s, address, data) ==
    IF address < 128
    THEN write_memory(s, InternalData(address), data)
    ELSE CASE address = 129 -> Ok([s EXCEPT !.stack_pointer = data], 0)
           [] address = 130 ->
                Ok([s EXCEPT !.data_pointer = (@ \div 256) * 256 + data], 0)
           [] address = 131 ->
                Ok([s EXCEPT !.data_pointer = (@ % 256) + data * 256], 0)
           [] address = 224 -> Ok([s EXCEPT !.accumulator = data], 0)
           [] address = 240 -> Ok([s EXCEPT !.b_register = data], 0)
           [] OTHER -> write_memory(s, SpecialFunctionRegister(address), data)

StoreIndirect(s, r, data) ==
    IF r \in {"R0", "R1"}
    THEN LET a == ReadBanked(s, RegisterIndex(r))
         IN IF a.res /= "ok" THEN a
            ELSE write_memory(a.s, InternalData(a.v), data)
    ELSE Err(s, "unsupported register for indirect store")

StoreIndirectExternal(s, r, data) ==
    CASE r \in {"R0", "R1"} ->
           LET a == ReadBanked(s, RegisterIndex(r))
           IN IF a.res /= "ok" THEN a
              ELSE write_memory(a.s, ExternalData(a.v), data)
      [] r = "DPTR" -> write_memory(s, ExternalData(s.data_pointer), data)
      [] OTHER -> Err(s, "unsupported register for indirect store")

store(s, mode, data) ==
    CASE mode.k = "Register" -> StoreRegister(s, mode.r, data)
      [] mode.k = "Bit" -> StoreBit(s, mode.v, data)
      [] mode.k = "Direct" -> StoreDirect(s, mode.v, data)
      [] mode.k = "Indirect" -> StoreIndirect(s, mode.r, data)
      [] mode.k = "IndirectExternal" -> StoreIndirectExternal(s, mode.r, data)
      [] OTHER -> Err(s, "unsupported addressing mode (store)")

(* ---------------------- CPU::decode_next_instruction ------------------ *)

\* enum Instruction with the length the decoder returns beside it
\* A faulty variant: every instruction is given the length 1.
Ins_length_one(op, o1, o2, addr, rel, len) ==
    [op |-> op, o1 |-> o1, o2 |-> o2, addr |-> addr, rel |-> rel, len |-> 1]

Ins(op, o1, o2, addr, rel, len) ==
    [op |-> op, o1 |-> o1, o2 |-> o2, addr |-> addr, rel |-> rel, len |-> len]

Undefined == Ins("Undefined", NoMode, NoMode, 0, 0, 0)

AJMPOpcodes == {1, 33, 65, 97, 129, 161, 193, 225}
ACALLOpcodes == {17, 49, 81, 113, 145, 177, 209, 241}

\* (((opcode & 0xE0) as u16) << 3) | (arg1 as u16)
PageAddress(opcode, arg1) == ((opcode \div 32) * 32) * 8 + arg1

\* A faulty variant: the first immediate byte is taken as the low byte.
Address16_low_first(arg1, arg2) == (arg2 * 256) + arg1

\* ((arg1 as u16) << 8) | (arg2 as u16)
Address16(arg1, arg2) == arg1 * 256 + arg2

\* The opcodes whose match arm reads Code(program_counter + 1) only.
OneFetchOpcodes ==
    AJMPOpcodes \cup ACALLOpcodes
    \cup {5, 21, 36, 37, 52, 53, 64, 66, 68, 69, 80, 82, 96, 112, 114, 116,
          118, 119, 128, 146, 148, 149, 160, 162, 192, 194, 208, 210,
          229, 245}
    \cup (120..127) \cup (134..143) \cup (166..175) \cup (216..223)

\* The opcodes whose match arm reads Code(program_counter + 1) and + 2.
TwoFetchOpcodes == {2, 18, 48, 67, 117, 133, 144, 213} \cup (180..191)

\* The arm of `match opcode` taken, with the immediate bytes it read.
DecodeTable(opcode, arg1, arg2) ==
    LET A == Register("A")
        C == Register("C")
        Rx == Register(register_from_opcode(opcode))
        Ri == Indirect(IF opcode % 2 = 0 THEN "R0" ELSE "R1")
        XRi == IndirectExternal(IF opcode % 2 = 0 THEN "R0" ELSE "R1")
        I0(op, len) == Ins(op, NoMode, NoMode, 0, 0, len)
        I1(op, o1, len) == Ins(op, o1, NoMode, 0, 0, len)
        I2(op, o1, o2, len) == Ins(op, o1, o2, 0, 0, len)
    IN CASE opcode = 0 -> I0("NOP", 1)
         [] opcode \in AJMPOpcodes ->
              Ins("AJMP", NoMode, NoMode, PageAddress(opcode, arg1), 0, 2)
         [] opcode = 2 ->
              Ins("LJMP", NoMode, NoMode, Address16(arg1, arg2), 0, 3)
         [] opcode = 4 -> I1("INC", A, 1)
         [] opcode = 5 -> I1("INC", Direct(arg1), 2)
         [] opcode \in {6, 7} -> I1("INC", Ri, 1)
         [] opcode \in 8..15 -> I1("INC", Rx, 1)
         [] opcode \in ACALLOpcodes ->
              Ins("ACALL", NoMode, NoMode, PageAddress(opcode, arg1), 0, 2)
         [] opcode = 18 ->
              Ins("LCALL", NoMode, NoMode, Address16(arg1, arg2), 0, 3)
         [] opcode = 20 -> I1("DEC", A, 1)
         [] opcode = 21 -> I1("DEC", Direct(arg1), 2)
         [] opcode \in {22, 23} -> I1("DEC", Ri, 1)
         [] opcode \in 24..31 -> I1("DEC", Rx, 1)
         [] opcode = 34 -> I0("RET", 1)
         [] opcode = 36 -> I1("ADD", Immediate(arg1), 2)
         [] opcode = 37 -> I1("ADD", Direct(arg1), 2)
         [] opcode \in {38, 39} -> I1("ADD", Ri, 1)
         [] opcode \in 40..47 -> I1("ADD", Rx, 1)
         [] opcode = 48 ->
              Ins("JNB", Bit(arg1), NoMode, 0, AsI8(arg2), 3)
         [] opcode = 50 -> I0("RETI", 1)
         [] opcode = 52 -> I1("ADDC", Immediate(arg1), 2)
         [] opcode = 53 -> I1("ADDC", Direct(arg1), 2)
         [] opcode \in {54, 55} -> I1("ADDC", Ri, 1)
         [] opcode \in 56..63 -> I1("ADDC", Rx, 1)
         [] opcode = 64 -> Ins("JC", NoMode, NoMode, 0, AsI8(arg1), 2)
         [] opcode = 66 -> I2("ORL", Direct(arg1), A, 2)
         [] opcode = 67 -> I2("ORL", Direct(arg1), Immediate(arg2), 3)
         [] opcode = 68 -> I2("ORL", A, Immediate(arg1), 2)
         [] opcode = 69 -> I2("ORL", A, Direct(arg1), 2)
         [] opcode \in {70, 71} -> I2("ORL", A, Ri, 1)
         [] opcode \in 72..79 -> I2("ORL", A, Rx, 1)
         [] opcode = 80 -> Ins("JNC", NoMode, NoMode, 0, AsI8(arg1), 2)
         [] opcode = 82 -> I2("ANL", Direct(arg1), A, 2)
         [] opcode = 96 -> Ins("JZ", NoMode, NoMode, 0, AsI8(arg1), 2)
         [] opcode = 112 -> Ins("JNZ", NoMode, NoMode, 0, AsI8(arg1), 2)
         [] opcode = 114 -> I2("ORL", C, Bit(arg1), 2)
         [] opcode = 116 -> I2("MOV", A, Immediate(arg1), 2)
         [] opcode = 117 -> I2("MOV", Direct(arg1), Immediate(arg2), 3)
         [] opcode \in {118, 119} -> I2("MOV", Ri, Immediate(arg1), 2)
         [] opcode \in 120..127 -> I2("MOV", Rx, Immediate(arg1), 2)
         [] opcode = 128 -> Ins("SJMP", NoMode, NoMode, 0, AsI8(arg1), 2)
         [] opcode = 131 -> I1("MOVC", IndirectCode("PC"), 1)
         [] opcode = 133 -> I2("MOV", Direct(arg2), Direct(arg1), 3)
         [] opcode \in {134, 135} -> I2("MOV", Direct(arg1), Ri, 2)
         [] opcode \in 136..143 -> I2("MOV", Direct(arg1), Rx, 2)
         [] opcode = 144 ->
              Ins("LoadDptr", NoMode, NoMode, Address16(arg1, arg2), 0, 3)
         [] opcode = 146 -> I2("MOV", Bit(arg1), C, 2)
         [] opcode = 147 -> I1("MOVC", IndirectCode("DPTR"), 1)
         [] opcode = 148 -> I1("SUBB", Immediate(arg1), 2)
         [] opcode = 149 -> I1("SUBB", Direct(arg1), 2)
         [] opcode \in {150, 151} -> I1("SUBB", Ri, 1)
         [] opcode \in 152..159 -> I1("SUBB", Rx, 1)
         [] opcode = 160 -> I2("ORL", C, NotBit(arg1), 2)
         [] opcode = 162 -> I2("MOV", C, Bit(arg1), 2)
         [] opcode = 163 -> I1("INC", Register("DPTR"), 1)
         [] opcode \in {166, 167} -> I2("MOV", Ri, Direct(arg1), 2)
         [] opcode \in 168..175 -> I2("MOV", Rx, Direct(arg1), 2)
         [] opcode = 180 ->
              Ins("CJNE", A, Immediate(arg1), 0, AsI8(arg2), 3)
         [] opcode = 181 ->
              Ins("CJNE", A, Direct(arg1), 0, AsI8(arg2), 3)
         [] opcode \in {182, 183} ->
              Ins("CJNE", Ri, Immediate(arg1), 0, AsI8(arg2), 3)
         [] opcode \in 184..191 ->
              Ins("CJNE", Rx, Immediate(arg1), 0, AsI8(arg2), 3)
         [] opcode = 192 -> I1("PUSH", Direct(arg1), 2)
         [] opcode = 194 -> I1("CLR", Bit(arg1), 2)
         [] opcode = 195 -> I1("CLR", C, 1)
         [] opcode = 208 -> I1("POP", Direct(arg1), 2)
         [] opcode = 210 -> I1("SETB", Bit(arg1), 2)
         [] opcode = 211 -> I1("SETB", C, 1)
         [] opcode = 213 ->
              Ins("DJNZ", Direct(arg1), NoMode, 0, AsI8(arg2), 3)
         [] opcode \in 216..223 ->
              Ins("DJNZ", Rx, NoMode, 0, AsI8(arg1), 2)
         [] opcode = 224 -> I2("MOVX", A, IndirectExternal("DPTR"), 1)
         [] opcode \in {226, 227} -> I2("MOVX", A, XRi, 1)
         [] opcode = 228 -> I1("CLR", A, 1)
         [] opcode = 229 -> I2("MOV", A, Direct(arg1), 2)
         [] opcode \in {230, 231} -> I2("MOV", A, Ri, 1)
         [] opcode \in 232..239 -> I2("MOV", A, Rx, 1)
         [] opcode = 240 -> I2("MOVX", IndirectExternal("DPTR"), A, 1)
         [] opcode \in {242, 243} -> I2("MOVX", XRi, A, 1)
         [] opcode = 244 -> I1("CPL", A, 1)
         [] opcode = 245 -> I2("MOV", Direct(arg1), A, 2)
         [] opcode \in {246, 247} -> I2("MOV", Ri, A, 1)
         [] opcode \in 248..255 -> I2("MOV", Rx, A, 1)
         [] OTHER -> Undefined

\* A faulty variant: each code byte is read twice.
FetchCode_twice(s, n) ==
    IF Overflows(s.program_counter + n, 0, 65535)
    THEN Panic(s, "attempt to add with overflow")
    ELSE LET a == read_memory(s, Code((s.program_counter + n) % 65536))
         IN IF a.res /= "ok" THEN a
            ELSE read_memory(a.s, Code((s.program_counter + n) % 65536))

\* read_memory(Address::Code(self.program_counter + n))
FetchCode(s, n) ==
    IF Overflows(s.program_counter + n, 0, 65535)
    THEN Panic(s, "attempt to add with overflow")
    ELSE read_memory(s, Code((s.program_counter + n) % 65536))

\* A faulty variant: the decoder steps over the opcode it does not know.
UnknownOpcode_skips(s) ==
    Err([s EXCEPT !.program_counter = (@ + 1) % 65536],
        "unimplemented instruction (decode)")

\* The error the decoder's last arm returns for an opcode it does not know.
UnknownOpcode(s) == Err(s, "unimplemented instruction (decode)")

decode_next_instruction(s) ==
    LET o == FetchCode(s, 0)
    IN IF o.res /= "ok" THEN o
       ELSE IF o.v \in TwoFetchOpcodes
       THEN LET a1 == FetchCode(o.s, 1)
            IN IF a1.res /= "ok" THEN a1
               ELSE LET a2 == FetchCode(a1.s, 2)
                    IN IF a2.res /= "ok" THEN a2
                       ELSE Ok(a2.s, DecodeTable(o.v, a1.v, a2.v))
       ELSE IF o.v \in OneFetchOpcodes
       THEN LET a1 == FetchCode(o.s, 1)
            IN IF a1.res /= "ok" THEN a1
               ELSE Ok(a1.s, DecodeTable(o.v, a1.v, 0))
       ELSE IF DecodeTable(o.v, 0, 0).op = "Undefined"
       THEN UnknownOpcode(o.s)
       ELSE Ok(o.s, DecodeTable(o.v, 0, 0))

(* ------------------------------- CPU::step ---------------------------- *)

\* How a match arm of step() ends: the arm's value with the candidate
\* next_program_counter (the tail of step() then commits it), or an early
\* return through `?` or an abort, which skips the commit.
Done(s, npc) == [s |-> s, res |-> "ok", e |-> "", npc |-> npc, early |-> FALSE]
ArmValue(r, npc) ==
    [s |-> r.s, res |-> r.res, e |-> r.e, npc |-> npc,
     early |-> (r.res = "panic")]
Early(r) == [s |-> r.s, res |-> r.res, e |-> r.e, npc |-> 0, early |-> TRUE]
Abort(s, e) == [s |-> s, res |-> "panic", e |-> e, npc |-> 0, early |-> TRUE]

\* ((next_program_counter as i16) + (offset as i16)) as u16
RelSum(npc, offset) == AsI16(npc) + offset

Branch(s, npc, offset) ==
    IF Overflows(RelSum(npc, offset), -32768, 32767)
    THEN Abort(s, "attempt to add with overflow")
    ELSE Done(s, AsU16(RelSum(npc, offset)))

\* The three flags of ADD and ADDC from result (u16), half_result and
\* signed_result (u8).
\* A faulty variant: the carry test is off by one.
AddCarry_from255(result) == IF result >= 255 THEN 1 ELSE 0
AddCarry(result) == IF result > 255 THEN 1 ELSE 0
AddAuxCarry(half_result) == IF half_result > 16 THEN 1 ELSE 0
\* A faulty variant: a carry into bit 7 sets overflow whatever the carry out.
AddOverflow_no_xor(signed_result, carry) ==
    IF signed_result > 127 THEN 1 ELSE carry
AddOverflow(signed_result, carry) ==
    IF signed_result > 127
    THEN (IF carry = 1 THEN 0 ELSE 1)
    ELSE carry

AddInto(s, data, cin) ==
    LET result == s.accumulator + data + cin
        half_result == (s.accumulator % 16) + (data % 16) + cin
        signed_result == (s.accumulator % 128) + (data % 128) + cin
    IN [s EXCEPT !.accumulator = AsU8(result),
                 !.carry_flag = AddCarry(result),
                 !.auxillary_carry_flag = AddAuxCarry(half_result),
                 !.overflow_flag = AddOverflow(signed_result, AddCarry(result))]

ExecADD(s, i, npc) ==
    LET d == load(s, i.o1)
    IN IF d.res /= "ok" THEN Early(d)
       ELSE Done(AddInto(d.s, d.v, 0), npc)

ExecADDC(s, i, npc) ==
    LET d == load(s, i.o1)
    IN IF d.res /= "ok" THEN Early(d)
       ELSE Done(AddInto(d.s, d.v, d.s.carry_flag % 2), npc)

ExecAJMP(s, i, npc) ==
    Done(s, ((s.program_counter \div 2048) * 2048) + i.addr)

\* ANL and ORL: load(operand1)? <op> load(operand2)?, stored at operand1
ExecLogic(s, i, npc) ==
    LET a == load(s, i.o1)
    IN IF a.res /= "ok" THEN Early(a)
       ELSE LET b == load(a.s, i.o2)
            IN IF b.res /= "ok" THEN Early(b)
               ELSE ArmValue(store(b.s, i.o1,
                               IF i.op = "ANL" THEN BitAnd(a.v, b.v)
                               ELSE BitOr(a.v, b.v)), npc)

\* A faulty variant: equal operands set the carry too.
ExecCJNE_carry_on_equal(s, i, npc) ==
    LET a == load(s, i.o1)
    IN IF a.res /= "ok" THEN Early(a)
       ELSE LET b == load(a.s, i.o2)
            IN IF b.res /= "ok" THEN Early(b)
               ELSE LET t == [b.s EXCEPT
                                !.carry_flag = IF a.v <= b.v THEN 1 ELSE 0]
                    IN IF a.v /= b.v THEN Branch(t, npc, i.rel)
                       ELSE Done(t, npc)

ExecCJNE(s, i, npc) ==
    LET a == load(s, i.o1)
    IN IF a.res /= "ok" THEN Early(a)
       ELSE LET b == load(a.s, i.o2)
            IN IF b.res /= "ok" THEN Early(b)
               ELSE LET t == [b.s EXCEPT
                                !.carry_flag = IF a.v < b.v THEN 1 ELSE 0]
                    IN IF a.v /= b.v THEN Branch(t, npc, i.rel)
                       ELSE Done(t, npc)

ExecDEC(s, i, npc) ==
    LET d == load(s, i.o1)
    IN IF d.res /= "ok" THEN Early(d)
       ELSE IF Overflows(d.v - 1, 0, 255)
       THEN Abort(d.s, "attempt to subtract with overflow")
       ELSE ArmValue(store(d.s, i.o1, AsU8(d.v - 1)), npc)

ExecDJNZ(s, i, npc) ==
    LET d == load(s, i.o1)
    IN IF d.res /= "ok" THEN Early(d)
       ELSE IF Overflows(d.v - 1, 0, 255)
       THEN Abort(d.s, "attempt to subtract with overflow")
       ELSE LET w == store(d.s, i.o1, AsU8(d.v - 1))
            IN IF w.res /= "ok" THEN Early(w)
               ELSE IF AsU8(d.v - 1) /= 0 THEN Branch(w.s, npc, i.rel)
               ELSE Done(w.s, npc)

ExecINC(s, i, npc) ==
    IF i.o1 = Register("DPTR")
    THEN IF Overflows(s.data_pointer + 1, 0, 65535)
         THEN Abort(s, "attempt to add with overflow")
         ELSE Done([s EXCEPT !.data_pointer = AsU16(@ + 1)], npc)
    ELSE LET d == load(s, i.o1)
         IN IF d.res /= "ok" THEN Early(d)
            ELSE IF Overflows(d.v + 1, 0, 255)
            THEN Abort(d.s, "attempt to add with overflow")
            ELSE ArmValue(store(d.s, i.o1, AsU8(d.v + 1)), npc)

\* A faulty variant: a taken JC clears the carry it tested.
ExecJC_clears_carry(s, i, npc) ==
    IF s.carry_flag /= 0
    THEN Branch([s EXCEPT !.carry_flag = 0], npc, i.rel)
    ELSE Done(s, npc)

ExecJC(s, i, npc) ==
    IF s.carry_flag /= 0 THEN Branch(s, npc, i.rel) ELSE Done(s, npc)

ExecJNB(s, i, npc) ==
    LET d == load(s, i.o1)
    IN IF d.res /= "ok" THEN Early(d)
       ELSE IF d.v = 0 THEN Branch(d.s, npc, i.rel) ELSE Done(d.s, npc)

ExecJNC(s, i, npc) ==
    IF s.carry_flag = 0 THEN Branch(s, npc, i.rel) ELSE Done(s, npc)

ExecJNZ(s, i, npc) ==
    IF s.accumulator /= 0 THEN Branch(s, npc, i.rel) ELSE Done(s, npc)

ExecJZ(s, i, npc) ==
    IF s.accumulator = 0 THEN Branch(s, npc, i.rel) ELSE Done(s, npc)

\* A faulty variant: a push is still let through at 127.
StackFull_above127(s) == s.stack_pointer > 127

\* The guard of PUSH and LCALL.
StackFull(s) == s.stack_pointer >= 127

ExecLCALL(s, i, npc) ==
    IF StackFull(s) THEN Abort(s, "stack overflow in LCALL")
    ELSE LET lo == write_memory(s, InternalData(s.stack_pointer + 1),
                                npc % 256)
         IN IF lo.res /= "ok" THEN Early(lo)
            ELSE LET hi == write_memory(lo.s,
                                        InternalData(s.stack_pointer + 2),
                                        (npc \div 256) % 256)
                 IN IF hi.res /= "ok" THEN Early(hi)
                    ELSE Done([hi.s EXCEPT !.stack_pointer = @ + 2], i.addr)

ExecLJMP(s, i, npc) == Done(s, i.addr)

\* MOV and MOVX
ExecMOV(s, i, npc) ==
    LET d == load(s, i.o2)
    IN IF d.res /= "ok" THEN Early(d)
       ELSE ArmValue(store(d.s, i.o1, d.v), npc)

ExecMOVC(s, i, npc) ==
    LET d == load(s, i.o1)
    IN IF d.res /= "ok" THEN Early(d)
       ELSE Done([d.s EXCEPT !.accumulator = d.v], npc)

\* A faulty variant: POP leaves the stack pointer where it is.
ExecPOP_no_decrement(s, i, npc) ==
    LET d == read_memory(s, InternalData(s.stack_pointer))
    IN IF d.res /= "ok" THEN Early(d)
       ELSE ArmValue(store(d.s, i.o1, d.v), npc)

ExecPOP(s, i, npc) ==
    LET d == read_memory(s, InternalData(s.stack_pointer))
    IN IF d.res /= "ok" THEN Early(d)
       ELSE IF Overflows(s.stack_pointer - 1, 0, 255)
       THEN Abort(d.s, "attempt to subtract with overflow")
       ELSE ArmValue(store([d.s EXCEPT !.stack_pointer = AsU8(@ - 1)],
                       i.o1, d.v), npc)

ExecPUSH(s, i, npc) ==
    IF StackFull(s) THEN Abort(s, "stack overflow in PUSH")
    ELSE LET d == load(s, i.o1)
         IN IF d.res /= "ok" THEN Early(d)
            ELSE LET w == write_memory(d.s,
                                       InternalData(d.s.stack_pointer + 1),
                                       d.v)
                 IN IF w.res /= "ok" THEN Early(w)
                    ELSE Done([w.s EXCEPT !.stack_pointer = @ + 1], npc)

\* A faulty variant: the byte at stack_pointer is taken as the low byte.
ReturnAddress_swapped(hi, lo) == ((lo * 256) % 65536) + hi

\* The address a return pops: the byte at stack_pointer is its high byte,
\* the byte below it its low byte.
ReturnAddress(hi, lo) == ((hi * 256) % 65536) + lo

\* RET and RETI
ExecRET(s, i, npc) ==
    LET hi == read_memory(s, InternalData(s.stack_pointer))
    IN IF hi.res /= "ok" THEN Early(hi)
       ELSE IF Overflows(s.stack_pointer - 1, 0, 255)
       THEN Abort(hi.s, "attempt to subtract with overflow")
       ELSE LET lo == read_memory(hi.s,
                                  InternalData(AsU8(s.stack_pointer - 1)))
            IN IF lo.res /= "ok" THEN Early(lo)
               ELSE IF Overflows(s.stack_pointer - 2, 0, 255)
               THEN Abort(lo.s, "attempt to subtract with overflow")
               ELSE Done([lo.s EXCEPT !.stack_pointer = AsU8(@ - 2)],
                         ReturnAddress(hi.v, lo.v))

ExecSJMP(s, i, npc) == Branch(s, npc, i.rel)

\* The flags of SUBB, from the operands as they are before the instruction.
SubbAuxCarry(acc, data, c) == IF (data % 16) + c > (acc % 16) THEN 1 ELSE 0
SubbCarry(acc, data, c) == IF AsU8(data + c) > acc THEN 1 ELSE 0
SubbOverflow(result) ==
    IF AsI16(result) > 127 \/ AsI16(result) < -128 THEN 1 ELSE 0

ExecSUBB(s, i, npc) ==
    LET d == load(s, i.o1)
    IN IF d.res /= "ok" THEN Early(d)
       ELSE LET acc == d.s.accumulator
                c == d.s.carry_flag % 2
                result == AsU16(acc - d.v - c)
                t == [d.s EXCEPT
                        !.auxillary_carry_flag = SubbAuxCarry(acc, d.v, c)]
            IN IF Overflows(acc - d.v, 0, 65535)
                  \/ Overflows(AsU16(acc - d.v) - c, 0, 65535)
               THEN Abort(d.s, "attempt to subtract with overflow")
               ELSE IF Overflows(d.v + c, 0, 255)
               THEN Abort(t, "attempt to add with overflow")
               ELSE Done([t EXCEPT !.carry_flag = SubbCarry(acc, d.v, c),
                                   !.overflow_flag = SubbOverflow(result),
                                   !.accumulator = AsU8(result)], npc)

ExecLoadDptr(s, i, npc) == Done([s EXCEPT !.data_pointer = i.addr], npc)

\* The last arm of the match in step().
Unimplemented(s, npc) ==
    ArmValue(Err(s, "unimplemented instruction (execute)"), npc)

\* `match instruction { ... }` of step()
Execute(s, i, npc) ==
    CASE i.op = "ADD" -> ExecADD(s, i, npc)
      [] i.op = "ADDC" -> ExecADDC(s, i, npc)
      [] i.op = "AJMP" -> ExecAJMP(s, i, npc)
      [] i.op \in {"ANL", "ORL"} -> ExecLogic(s, i, npc)
      [] i.op = "CJNE" -> ExecCJNE(s, i, npc)
      [] i.op = "CLR" -> ArmValue(store(s, i.o1, 0), npc)
      [] i.op = "DEC" -> ExecDEC(s, i, npc)
      [] i.op = "DJNZ" -> ExecDJNZ(s, i, npc)
      [] i.op = "INC" -> ExecINC(s, i, npc)
      [] i.op = "JC" -> ExecJC(s, i, npc)
      [] i.op = "JNB" -> ExecJNB(s, i, npc)
      [] i.op = "JNC" -> ExecJNC(s, i, npc)
      [] i.op = "JNZ" -> ExecJNZ(s, i, npc)
      [] i.op = "JZ" -> ExecJZ(s, i, npc)
      [] i.op = "LCALL" -> ExecLCALL(s, i, npc)
      [] i.op = "LJMP" -> ExecLJMP(s, i, npc)
      [] i.op \in {"MOV", "MOVX"} -> ExecMOV(s, i, npc)
      [] i.op = "MOVC" -> ExecMOVC(s, i, npc)
      [] i.op = "NOP" -> Done(s, npc)
      [] i.op = "POP" -> ExecPOP(s, i, npc)
      [] i.op = "PUSH" -> ExecPUSH(s, i, npc)
      [] i.op \in {"RET", "RETI"} -> ExecRET(s, i, npc)
      [] i.op = "SETB" -> ArmValue(store(s, i.o1, 1), npc)
      [] i.op = "SJMP" -> ExecSJMP(s, i, npc)
      [] i.op = "SUBB" -> ExecSUBB(s, i, npc)
      [] i.op = "LoadDptr" -> ExecLoadDptr(s, i, npc)
      [] OTHER -> Unimplemented(s, npc)

\* The tail of step(): `self.program_counter = next_program_counter; result`,
\* which an early return or an abort never reaches.
Commit(x) ==
    IF x.early THEN [s |-> x.s, res |-> x.res, e |-> x.e]
    ELSE [s |-> [x.s EXCEPT !.program_counter = x.npc],
          res |-> x.res, e |-> x.e]

step(s) ==
    LET d == decode_next_instruction(s)
    IN IF d.res /= "ok" THEN Commit(Early(d))
       ELSE IF Overflows(d.s.program_counter + d.v.len, 0, 65535)
       THEN Commit(Abort(d.s, "attempt to add with overflow"))
       ELSE Commit(Execute(d.s, d.v,
                           AsU16(d.s.program_counter + d.v.len)))

(* ------------------------------ the driver ---------------------------- *)

\* The driver calls step() at most MaxSteps times.
MaxSteps == 2

\* One call of step() by the driver.  The collaborator's call log is
\* cleared first, so that it shows the calls of this step alone.  A panic
\* ends the process: no step follows it.
Call ==
    /\ outcome.res /= "panic"
    /\ LET r == step([cpu EXCEPT !.memory.reads = 0, !.memory.wlog = <<>>])
       IN /\ cpu' = r.s
          /\ outcome' = [res |-> r.res, e |-> r.e]
    /\ prev' = cpu
    /\ steps' = steps + 1
    /\ UNCHANGED <<start, call, overflow_checks>>

Step == steps < MaxSteps /\ Call

Next == Step

\* A collaborator backing exactly the cells given, its call log empty.
Memory(cells) == [cells |-> cells, reads |-> 0, wlog |-> <<>>]

\* Code space holding `bytes` from address p on.
CodeAt(p, bytes) ==
    [a \in {Code(p + k - 1) : k \in 1..Len(bytes)} |-> bytes[a[2] - p + 1]]

\* The state the driver hands to the first step(): the CPU c, built by
\* CPU::new and set up through LJMP, MOV and the like, in the build chk.
Setup(c, chk) ==
    /\ cpu = c
    /\ call = [mode |-> NoMode, data |-> 0, stored |-> "none", value |-> 0]
    /\ prev = c
    /\ start = c
    /\ outcome = [res |-> "new", e |-> ""]
    /\ overflow_checks = chk
    /\ steps = 0

(* ---------------- Spec: any one instruction, anywhere ----------------- *)

\* Data cells of the default collaborator.  R0 points at backed cells of
\* internal and external RAM, R1 at unbacked ones; internal RAM 0x23, the
\* bit bytes but 0x20 and SFR 0x90 are not backed.
DefaultData ==
    (InternalData(0) :> 48) @@ (InternalData(1) :> 35)
    @@ (InternalData(2) :> 3) @@ (InternalData(3) :> 0)
    @@ (InternalData(4) :> 255) @@ (InternalData(5) :> 1)
    @@ (InternalData(6) :> 128) @@ (InternalData(7) :> 127)
    @@ (InternalData(8) :> 52) @@ (InternalData(9) :> 18)
    @@ (InternalData(32) :> 165) @@ (InternalData(48) :> 90)
    @@ (InternalData(127) :> 200)
    @@ (ExternalData(48) :> 77) @@ (ExternalData(1024) :> 171)
    @@ (SpecialFunctionRegister(254) :> 60)
    @@ (BitAddress(129) :> 1) @@ (BitAddress(254) :> 0)

\* First and second immediate byte of the instruction under test.
Arg1Set == {0, 35, 48, 129, 144, 254}
Arg2Set == {0, 127, 128, 254}

\* Where the instruction under test sits.
StartPCs == {0, 2046, 2047, 2048}

\* Register files the instruction under test starts from.
RegisterFiles ==
    {[a |-> 0, c |-> 0, sp |-> 7, dptr |-> 1024],
     [a |-> 127, c |-> 1, sp |-> 8, dptr |-> 1024]}

WithRegisters(c, p, r) ==
    [c EXCEPT !.program_counter = p, !.accumulator = r.a,
              !.carry_flag = r.c, !.stack_pointer = r.sp,
              !.data_pointer = r.dptr]

Init ==
    \E opcode \in Byte, arg1 \in Arg1Set, arg2 \in Arg2Set, p \in StartPCs,
       r \in RegisterFiles, chk \in BOOLEAN :
        Setup(WithRegisters(
                  new(Memory(CodeAt(p, <<opcode, arg1, arg2>>)
                             @@ DefaultData)), p, r), chk)

Spec == Init /\ [][Next]_vars

(* ------------------- what a step was given, observed ------------------ *)

\* The byte of code space at address a in CPU c, or -1 when not backed.
CodeByte(c, a) ==
    IF Code(a) \in DOMAIN c.memory.cells THEN c.memory.cells[Code(a)] ELSE -1

\* The instruction at the program counter of CPU c, as the decoder reads it.
OpcodeAt(c) == CodeByte(c, c.program_counter)
InsAt(c) ==
    DecodeTable(OpcodeAt(c), CodeByte(c, c.program_counter + 1),
                CodeByte(c, c.program_counter + 2))

\* The last step() executed instruction `op` and returned Ok.
Executed(op) == steps > 0 /\ outcome.res = "ok" /\ InsAt(prev).op = op

\* The value of the first operand of the instruction the last step() was
\* given, loaded in the state before it.
PrevOperand == load(prev, InsAt(prev).o1).v

\* The register file of CPU c (everything but the collaborator).
Registers(c) ==
    <<c.bank, c.carry_flag, c.auxillary_carry_flag, c.overflow_flag,
      c.accumulator, c.b_register, c.stack_pointer, c.data_pointer,
      c.program_counter>>

DecodeError == [res |-> "err", e |-> "unimplemented instruction (decode)"]

(* ----------------------------- claims, Spec --------------------------- *)

\* C3 (as stated): whenever step() returns an error, program_counter is what
\* it was before the call.
C3_ErrorKeepsPC ==
    (steps > 0 /\ outcome.res = "err")
        => cpu.program_counter = prev.program_counter

\* C4: an opcode the decoder does not recognise makes step() return the
\* decode error, with every register and every memory cell as before and no
\* write_memory call issued.
C4_UnknownOpcode ==
    (steps > 0 /\ OpcodeAt(prev) >= 0 /\ InsAt(prev).op = "Undefined")
        => /\ outcome = DecodeError
           /\ Registers(cpu) = Registers(prev)
           /\ cpu.memory.wlog = <<>>
           /\ cpu.memory.cells = prev.memory.cells

\* C4's case: the reserved opcode 0xA5 was stepped at a nonzero address.
C4_Witness ==
    /\ steps > 0
    /\ OpcodeAt(prev) = 165
    /\ prev.program_counter = 2046
    /\ outcome = DecodeError

\* C5 (as stated): every opcode but the reserved 0xA5 decodes, so step()
\* never answers it with the decode error.
C5_AllOpcodesDecode ==
    (steps > 0 /\ OpcodeAt(prev) >= 0 /\ OpcodeAt(prev) /= 165)
        => outcome /= DecodeError

\* C6 (as stated): AJMP takes its page bits from the address after the
\* instruction: program_counter = ((p + 2) & 0xF800) | addr11.
C6_AJMPPage ==
    Executed("AJMP")
        => cpu.program_counter
             = (((prev.program_counter + 2) \div 2048) * 2048)
               + InsAt(prev).addr

\* C18 (as stated): ACALL addr11 at p with stack_pointer = s <= 126 returns
\* Ok, writes the low byte of p + 2 at InternalData(s + 1) and the high byte
\* at InternalData(s + 2), and leaves stack_pointer = s + 2 and
\* program_counter = ((p + 2) & 0xF800) | addr11.
C18_ACALL ==
    (steps > 0 /\ InsAt(prev).op = "ACALL" /\ prev.stack_pointer <= 126)
        => /\ outcome.res = "ok"
           /\ cpu.memory.wlog
                = << <<InternalData(prev.stack_pointer + 1),
                       (prev.program_counter + 2) % 256>>,
                     <<InternalData(prev.stack_pointer + 2),
                       (prev.program_counter + 2) \div 256>> >>
           /\ cpu.stack_pointer = prev.stack_pointer + 2
           /\ cpu.program_counter
                = (((prev.program_counter + 2) \div 2048) * 2048)
                  + InsAt(prev).addr

\* The last step() was given a CJNE whose two operands load.
C21_Pre ==
    /\ steps > 0
    /\ InsAt(prev).op = "CJNE"
    /\ load(prev, InsAt(prev).o1).res = "ok"
    /\ load(prev, InsAt(prev).o2).res = "ok"

C22_Pre ==
    /\ steps > 0
    /\ InsAt(prev).op \in {"INC", "DEC"}
    /\ (InsAt(prev).o1 /= Register("DPTR")
          => load(prev, InsAt(prev).o1).res = "ok")

\* C22 (as stated): INC and DEC return Ok for every operand value and store
\* the value plus or minus one modulo 256 (INC DPTR: modulo 65536), leaving
\* the three flags as they were.
C22_IncDecWrap ==
    C22_Pre
        => LET i == InsAt(prev)
               d == IF i.op = "INC" THEN 1 ELSE -1
           IN /\ outcome.res = "ok"
              /\ IF i.o1 = Register("DPTR")
                 THEN cpu.data_pointer = (prev.data_pointer + 1) % 65536
                 ELSE load(cpu, i.o1).v = (load(prev, i.o1).v + d) % 256
              /\ cpu.carry_flag = prev.carry_flag
              /\ cpu.auxillary_carry_flag = prev.auxillary_carry_flag
              /\ cpu.overflow_flag = prev.overflow_flag

(* ------------- SpecNew: a program run from CPU::new itself ------------ *)

\* The default collaborator with one more cell: bit address 0x90, a bit the
\* collaborator keeps, from which it returns a byte that is neither 0 nor 1.
NewData == (BitAddress(144) :> 37) @@ DefaultData

\* CPU::new over a collaborator holding a three-byte program at address 0.
InitNew ==
    \E opcode \in Byte, arg1 \in Arg1Set, arg2 \in Arg2Set, chk \in BOOLEAN :
        Setup(new(Memory(CodeAt(0, <<opcode, arg1, arg2>>) @@ NewData)), chk)

SpecNew == InitNew /\ [][Next]_vars

\* C13 (as stated): in every state reached from CPU::new, bank < 4 and each
\* of the three flags is 0 or 1.
C13_FlagsBoolean ==
    /\ cpu.bank < 4
    /\ cpu.carry_flag \in {0, 1}
    /\ cpu.auxillary_carry_flag \in {0, 1}
    /\ cpu.overflow_flag \in {0, 1}

(* --------- SpecRoundTrip: store(M, v) followed by load(M) ------------- *)

\* The addressing modes for which both load and store are defined, with the
\* values stored through each: a bit takes 0 or 1, the others any byte.
RoundTripModes ==
    {Register(r) : r \in {"A", "C", "R0", "R1", "R2", "R3", "R4", "R5",
                          "R6", "R7"}}
    \cup {Direct(a) : a \in Byte}
    \cup {Indirect(r) : r \in {"R0", "R1"}}
    \cup {IndirectExternal(r) : r \in {"R0", "R1", "DPTR"}}
    \cup {Bit(b) : b \in Byte}

RoundTripData(mode) ==
    IF mode.k = "Bit" THEN {0, 1} ELSE {0, 1, 37, 128, 255}

\* store(mode, data) and, when it returned Ok, load(mode) right after it.
StoreLoad ==
    /\ steps = 0
    /\ \E mode \in RoundTripModes :
         \E data \in RoundTripData(mode) :
           LET w == store(cpu, mode, data)
               r == IF w.res = "ok" THEN load(w.s, mode) ELSE w
           IN /\ cpu' = r.s
              /\ outcome' = [res |-> r.res, e |-> r.e]
              /\ call' = [mode |-> mode, data |-> data, stored |-> w.res,
                          value |-> r.v]
    /\ prev' = cpu
    /\ steps' = steps + 1
    /\ UNCHANGED <<start, overflow_checks>>

\* A collaborator backing all of internal RAM, every SFR and every bit it
\* keeps, and external RAM where R0, R1 and DPTR can point.
RoundTripData0 ==
    [a \in {InternalData(o) : o \in Byte}
           \cup {SpecialFunctionRegister(o) : o \in 128..255}
           \cup {BitAddress(o) : o \in 128..255}
           \cup {ExternalData(o) : o \in {0, 1, 48, 35, 4660}}
       |-> IF a[1] = "Bit" THEN a[2] % 2 ELSE (a[2] * 7 + 3) % 256]

\* Where R0 and R1 point: at other cells (0x30, 0x23) or at themselves.
PointerFiles == {<<48, 35>>, <<0, 1>>}

InitRoundTrip ==
    \E r \in RegisterFiles, ptr \in PointerFiles, chk \in BOOLEAN :
        Setup(WithRegisters(
                  new(Memory((InternalData(0) :> ptr[1])
                             @@ (InternalData(1) :> ptr[2])
                             @@ RoundTripData0)), 0,
                  [r EXCEPT !.dptr = 4660]), chk)

SpecRoundTrip == InitRoundTrip /\ [][StoreLoad]_vars

\* The resolver was asked to store and then load, and the store returned Ok.
Stored == steps = 1 /\ call.stored = "ok"

\* C14 (as stated): store(M, v) followed immediately by load(M) returns v.
C14_RoundTrip ==
    Stored => (outcome.res = "ok" /\ call.value = call.data)

\* C15 (as stated): a store to an SFR-overlay bit (0x80..0xFF) with data d
\* writes 0 when d = 0 and 1 when d is nonzero.
C15_BitStoreData ==
    (Stored /\ call.mode.k = "Bit" /\ call.mode.v >= 128)
        => cpu.memory.wlog
             = << <<BitAddress(call.mode.v),
                    IF call.data = 0 THEN 0 ELSE 1>> >>

\* C23 (as stated): a store and a load through Direct(0xD0) stay inside the
\* core: no call reaches the collaborator, the store sets carry_flag,
\* auxillary_carry_flag, overflow_flag and bank from bits 7, 6, 2 and 4..3
\* of the byte, and the load returns a byte showing them in those bits.
C23_PSWIntercepted ==
    (Stored /\ call.mode = Direct(208))
        => /\ cpu.memory.wlog = <<>>
           /\ cpu.memory.reads = 0
           /\ cpu.carry_flag = BitOf(call.data, 7)
           /\ cpu.auxillary_carry_flag = BitOf(call.data, 6)
           /\ cpu.overflow_flag = BitOf(call.data, 2)
           /\ cpu.bank = (call.data \div 8) % 4
           /\ BitOf(call.value, 7) = cpu.carry_flag
           /\ BitOf(call.value, 6) = cpu.auxillary_carry_flag
           /\ BitOf(call.value, 2) = cpu.overflow_flag
           /\ (call.value \div 8) % 4 = cpu.bank

(* ------------- SpecADD, SpecSUBB: one arithmetic instruction ---------- *)

\* Operand values tried through the direct, indirect and register forms;
\* the immediate form is tried with every byte.
SampleBytes == {0, 1, 15, 16, 127, 128, 255}

\* An arithmetic instruction of the family with immediate opcode `base`
\* (base + 1: direct, base + 2: @R0, base + 5: R1) at 0x0100, the
\* accumulator a, the operand value op where the form finds it, carry-in c.
ArithSetup(base, form, a, op, c, chk) ==
    Setup([new(Memory(CodeAt(256, <<base + form,
                                    IF form = 0 THEN op ELSE 48>>)
                      @@ (InternalData(0) :> 48) @@ (InternalData(1) :> op)
                      @@ (InternalData(48) :> op)))
             EXCEPT !.program_counter = 256, !.accumulator = a,
                    !.carry_flag = c, !.auxillary_carry_flag = c,
                    !.overflow_flag = 1 - c], chk)

ArithInit(base) ==
    \E c \in {0, 1}, chk \in BOOLEAN :
        \/ \E a \in Byte, op \in Byte : ArithSetup(base, 0, a, op, c, chk)
        \/ \E a \in SampleBytes, op \in SampleBytes, form \in {1, 2, 5} :
               ArithSetup(base, form, a, op, c, chk)

InitADD == ArithInit(36)

SpecADD == InitADD /\ [][Next]_vars

InitSUBB == ArithInit(148)

SpecSUBB == InitSUBB /\ [][Next]_vars

InitADDC == ArithInit(52)

SpecADDC == InitADDC /\ [][Next]_vars

(* --------------------------- claims, SpecADD -------------------------- *)

\* C7 (as stated): ADD sets the auxiliary carry exactly when the sum of the
\* low nibbles of accumulator and operand exceeds 15.
C7_ADDAuxCarry ==
    Executed("ADD")
        => cpu.auxillary_carry_flag
             = IF (prev.accumulator % 16) + (PrevOperand % 16) > 15
               THEN 1 ELSE 0

\* C8: ADD leaves accumulator = (A + op) mod 256 and carry_flag = 1 exactly
\* when A + op > 255.
C8_ADDSum ==
    Executed("ADD")
        => /\ cpu.accumulator = (prev.accumulator + PrevOperand) % 256
           /\ cpu.carry_flag
                = IF prev.accumulator + PrevOperand > 255 THEN 1 ELSE 0

\* C8's case: an ADD whose sum passes 255 was executed.
C8_Witness ==
    /\ Executed("ADD")
    /\ prev.accumulator = 200
    /\ PrevOperand = 100
    /\ cpu.accumulator = 44
    /\ cpu.carry_flag = 1

\* C9: ADD sets overflow_flag exactly when the sum of accumulator and
\* operand, both read as signed bytes, lies outside -128..127.
C9_ADDOverflow ==
    Executed("ADD")
        => cpu.overflow_flag
             = IF AsI8(prev.accumulator) + AsI8(PrevOperand) \in -128..127
               THEN 0 ELSE 1

\* C9's case: 0x7F + 0x01 was executed and overflowed.
C9_Witness ==
    /\ Executed("ADD")
    /\ prev.accumulator = 127
    /\ PrevOperand = 1
    /\ cpu.overflow_flag = 1

(* --------------------------- claims, SpecSUBB ------------------------- *)

\* C10 (as stated): SUBB with a loadable operand completes successfully and
\* leaves accumulator = (A - op - c) mod 256, borrow or not.
C10_SUBBCompletes ==
    (steps > 0 /\ InsAt(prev).op = "SUBB" /\ load(prev, InsAt(prev).o1).res = "ok")
        => /\ outcome.res = "ok"
           /\ cpu.accumulator
                = (prev.accumulator - PrevOperand - (prev.carry_flag % 2)) % 256

\* C11 (as stated): SUBB leaves carry_flag = 1 exactly when op + c > A, the
\* sum op + c taken as an unbounded integer.
C11_SUBBCarry ==
    Executed("SUBB")
        => cpu.carry_flag
             = IF PrevOperand + (prev.carry_flag % 2) > prev.accumulator
               THEN 1 ELSE 0

\* C12 (as stated): SUBB sets overflow_flag exactly when
\* signed(A) - signed(op) - c lies outside -128..127.
C12_SUBBOverflow ==
    Executed("SUBB")
        => cpu.overflow_flag
             = IF AsI8(prev.accumulator) - AsI8(PrevOperand)
                    - (prev.carry_flag % 2) \in -128..127
               THEN 0 ELSE 1

(* ---------------- SpecStack: LCALL/RET and PUSH/POP pairs ------------- *)

\* What a data cell at offset a holds before the first step.
StackValue(a) == (a * 7 + 3) % 256

\* Stack pointers tried: room for a push (up to 126) and none (127, 255).
StackPointers == {0, 7, 48, 125, 126, 127, 255}

\* Where the LCALL sits and where it calls (a RET sits there).
CallPCs == {0, 2045, 65532}
CallTargets == {3, 256, 4660, 32768, 65534}

\* Direct addresses pushed from and popped to: internal RAM, SFRs kept by
\* the collaborator (0x80, 0xD0, 0xFF) and SFRs kept by the core (SP, DPL,
\* DPH, ACC, B).
PushDirs == {0, 7, 48, 127, 128, 129, 130, 131, 208, 224, 240, 255}

\* Backed data cells: internal RAM at the offsets given and every SFR.
DataCells(offsets) ==
    [a \in {InternalData(o) : o \in offsets}
           \cup {SpecialFunctionRegister(o) : o \in 128..255}
       |-> StackValue(a[2])]

StackRegisters(c, p, sp) ==
    [c EXCEPT !.program_counter = p, !.stack_pointer = sp,
              !.accumulator = 90, !.b_register = 165, !.data_pointer = 4660]

InitStack ==
    \E sp \in StackPointers, chk \in BOOLEAN :
        \/ \E p \in CallPCs, addr \in CallTargets :
             Setup(StackRegisters(
                       new(Memory(CodeAt(p, <<18, addr \div 256, addr % 256>>)
                                  @@ CodeAt(addr, <<34>>)
                                  @@ DataCells({sp + 1, sp + 2}))), p, sp),
                   chk)
        \/ \E dir \in PushDirs \cup {(sp + 1) % 256},
                dir2 \in PushDirs \cup {(sp + 1) % 256} :
             Setup(StackRegisters(
                       new(Memory(CodeAt(256, <<192, dir, 208, dir2>>)
                                  @@ DataCells((PushDirs \cup {sp, sp + 1})
                                               \cap (0..127)))), 256, sp),
                   chk)

SpecStack == InitStack /\ [][Next]_vars

(* -------------------------- claims, SpecStack ------------------------- *)

\* An LCALL sits at the starting program counter, a RET at its target, the
\* stack pointer is at most 126 and the two stack cells are backed.
C1_Pre ==
    /\ OpcodeAt(start) = 18
    /\ CodeByte(start, InsAt(start).addr) = 34
    /\ start.stack_pointer <= 126
    /\ {InternalData(start.stack_pointer + 1),
        InternalData(start.stack_pointer + 2)}
          \subseteq DOMAIN start.memory.cells

\* C1: LCALL addr16 at p followed by the RET at addr16: both steps return
\* Ok, and after the second program_counter = p + 3 and stack_pointer is
\* what it was before the LCALL.
C1_CallReturn ==
    C1_Pre
        => /\ (steps \in {1, 2} => outcome.res = "ok")
           /\ (steps = 2
                 => /\ cpu.program_counter = start.program_counter + 3
                    /\ cpu.stack_pointer = start.stack_pointer)

\* C1's case: a call from 0xFFFC with the stack pointer at 126 has returned.
C1_Witness ==
    /\ C1_Pre
    /\ steps = 2
    /\ start.program_counter = 65532
    /\ start.stack_pointer = 126
    /\ InsAt(prev).op = "RET"
    /\ cpu.program_counter = 65535

\* PUSH dir sits at the starting program counter and POP dir' right after
\* it, and the stack pointer is at most 126.
C2_Pre ==
    /\ OpcodeAt(start) = 192
    /\ CodeByte(start, start.program_counter + 2) = 208
    /\ start.stack_pointer <= 126

\* The direct addresses of the PUSH and of the POP.
C2_Dir == CodeByte(start, start.program_counter + 1)
C2_Dir2 == CodeByte(start, start.program_counter + 3)

\* C2 (as stated): PUSH dir then POP dir' leaves stack_pointer as it was
\* before the PUSH and dir' holding the byte dir held before the PUSH.
C2_PushPop ==
    C2_Pre
        => /\ (steps \in {1, 2} => outcome.res = "ok")
           /\ (steps = 2
                 => /\ cpu.stack_pointer = start.stack_pointer
                    /\ load(cpu, Direct(C2_Dir2)).v
                         = load(start, Direct(C2_Dir)).v)

\* C2 (amended): PUSH dir then POP dir' leaves dir' holding the byte dir
\* held before the PUSH, and leaves stack_pointer as it was before the PUSH
\* unless dir' is 0x81, the stack pointer itself.
C2_PushPopAmended ==
    C2_Pre
        => /\ (steps \in {1, 2} => outcome.res = "ok")
           /\ (steps = 2
                 => /\ (C2_Dir2 /= 129
                          => cpu.stack_pointer = start.stack_pointer)
                    /\ load(cpu, Direct(C2_Dir2)).v
                         = load(start, Direct(C2_Dir)).v)

\* C2's case: internal RAM 0x30 was pushed and popped into B, with the
\* stack pointer at its upper limit.
C2_Witness ==
    /\ C2_Pre
    /\ steps = 2
    /\ C2_Dir = 48
    /\ C2_Dir2 = 240
    /\ start.stack_pointer = 126
    /\ cpu.b_register = StackValue(48)
    /\ cpu.stack_pointer = 126


\* The panic of the stack guard of PUSH and of LCALL.
StackOverflowPanics ==
    {[res |-> "panic", e |-> "stack overflow in PUSH"],
     [res |-> "panic", e |-> "stack overflow in LCALL"]}

\* C16: a PUSH or LCALL stepped with stack_pointer >= 127 ends in the
\* stack-overflow panic, which no error return equals, with no write_memory
\* call issued, no memory cell changed and stack_pointer and program_counter
\* as before.
C16_StackOverflow ==
    (steps > 0 /\ InsAt(prev).op \in {"PUSH", "LCALL"}
       /\ prev.stack_pointer >= 127)
        => /\ outcome \in StackOverflowPanics
           /\ cpu.memory.wlog = <<>>
           /\ cpu.memory.cells = prev.memory.cells
           /\ cpu.stack_pointer = prev.stack_pointer
           /\ cpu.program_counter = prev.program_counter

\* C16's case: a PUSH was stepped with the stack pointer at exactly 127.
C16_Witness ==
    /\ steps = 1
    /\ InsAt(prev).op = "PUSH"
    /\ prev.stack_pointer = 127
    /\ outcome = [res |-> "panic", e |-> "stack overflow in PUSH"]
    /\ cpu.stack_pointer = 127

\* C32 (as stated): every write_memory call of a PUSH or LCALL that returned
\* Ok is to an InternalData address in 1..127, and stack_pointer is at most
\* 127 after it.
C32_StackWrites ==
    (Executed("PUSH") \/ Executed("LCALL"))
        => /\ \A k \in 1..Len(cpu.memory.wlog) :
                cpu.memory.wlog[k][1]
                    \in {InternalData(a) : a \in 1..127}
           /\ cpu.stack_pointer <= 127

\* C33: bank = 0 in every state reached from CPU::new by step() calls, a
\* write to the PSW at Direct(0xD0) included, so that R0..R7 are
\* InternalData(0..7).
C33_BankZero == cpu.bank = 0 /\ BankBase(cpu) = 0

\* C33's case: PUSH ACC, POP 0xD0 has written 0x5A, whose bits 4..3 select
\* bank 3, to the PSW.
C33_Witness ==
    /\ steps = 2
    /\ Executed("POP")
    /\ InsAt(prev).o1 = Direct(208)
    /\ cpu.memory.wlog = << <<SpecialFunctionRegister(208), 90>> >>
    /\ cpu.bank = 0

\* An LCALL sits at the starting program counter, the stack pointer is at
\* most 126 and the two stack cells are backed.
C17_Pre ==
    /\ OpcodeAt(start) = 18
    /\ start.stack_pointer <= 126
    /\ {InternalData(start.stack_pointer + 1),
        InternalData(start.stack_pointer + 2)}
          \subseteq DOMAIN start.memory.cells

\* C17: LCALL addr16 at p with stack_pointer = s <= 126 and the two stack
\* cells backed returns Ok, leaves the low byte of p + 3 at InternalData(s + 1)
\* and the high byte at InternalData(s + 2), stack_pointer = s + 2 and
\* program_counter = addr16, the first immediate byte being the high byte.
C17_LCALL ==
    (C17_Pre /\ steps = 1)
        => /\ outcome.res = "ok"
           /\ cpu.memory.cells[InternalData(start.stack_pointer + 1)]
                = (start.program_counter + 3) % 256
           /\ cpu.memory.cells[InternalData(start.stack_pointer + 2)]
                = (start.program_counter + 3) \div 256
           /\ cpu.stack_pointer = start.stack_pointer + 2
           /\ cpu.program_counter
                = CodeByte(start, start.program_counter + 1) * 256
                  + CodeByte(start, start.program_counter + 2)

\* C17's case: LCALL 0x1234 at 0x07FD with the stack pointer at 126.
C17_Witness ==
    /\ C17_Pre
    /\ steps = 1
    /\ start.program_counter = 2045
    /\ start.stack_pointer = 126
    /\ cpu.program_counter = 4660
    /\ cpu.stack_pointer = 128
    /\ cpu.memory.cells[InternalData(127)] = 0
    /\ cpu.memory.cells[InternalData(128)] = 8



(* ------------- SpecBranch: relative branches and DJNZ loops ----------- *)

\* The driver of a loop calls step() at most MaxRun times.
MaxRun == 5

Run == steps < MaxRun /\ Call

\* Where the branch sits: low memory, either side of 0x8000 (where the
\* address after the instruction changes sign as an i16) and the top.
BranchPCs == {0, 256, 32765, 32766, 65532}

\* The offset byte of the branch: -128, -3, -2, 0, 2, 127.
BranchOffsets == {128, 253, 254, 0, 2, 127}

\* The branch instructions, given their offset byte: SJMP, JC, JNC, JZ, JNZ,
\* JNB 0x00, CJNE A,#7, DJNZ 0x30 and DJNZ Rn.
BranchForms(rel) ==
    {<<128, rel>>, <<64, rel>>, <<80, rel>>, <<96, rel>>, <<112, rel>>,
     <<48, 0, rel>>, <<180, 7, rel>>, <<213, 48, rel>>}
    \cup {<<216 + n, rel>> : n \in 0..7}

\* The count every DJNZ operand starts from.
LoopCounts == {1, 2, 3, 4, 255}

\* Accumulator and carry the branch finds, so that each conditional branch
\* is tried taken and not taken.
BranchRegisters == {<<0, 0>>, <<7, 1>>, <<9, 0>>}

InitBranch ==
    \E p \in BranchPCs, rel \in BranchOffsets, k \in LoopCounts,
       r \in BranchRegisters, bit \in {0, 1}, chk \in BOOLEAN :
        \E form \in BranchForms(rel) :
            Setup([new(Memory(CodeAt(p, form)
                              @@ [a \in {InternalData(n) : n \in 0..7}
                                           \cup {InternalData(48)} |-> k]
                              @@ (InternalData(32) :> bit)))
                     EXCEPT !.program_counter = p, !.accumulator = r[1],
                            !.carry_flag = r[2]], chk)

SpecBranch == InitBranch /\ [][Run]_vars


(* -------------------------- claims, SpecBranch ------------------------ *)

\* DJNZ Rn, -2 sits at the starting program counter and Rn holds 1..255.
C19_Pre ==
    /\ InsAt(start).op = "DJNZ"
    /\ InsAt(start).o1.k = "Register"
    /\ InsAt(start).rel = -2
    /\ load(start, InsAt(start).o1).v \in 1..255

\* C19 (as stated): with DJNZ Rn, -2 at p and Rn = k, each of the first
\* k - 1 steps returns Ok, takes one from Rn and leaves program_counter = p;
\* the k-th leaves Rn = 0 and program_counter = p + 2.
C19_DJNZLoop ==
    C19_Pre
        => LET k == load(start, InsAt(start).o1).v
               p == start.program_counter
               Rn == load(cpu, InsAt(start).o1).v
           IN /\ (steps \in 1..k => outcome.res = "ok")
              /\ (steps < k => (Rn = k - steps /\ cpu.program_counter = p))
              /\ (steps = k => (Rn = 0 /\ cpu.program_counter = p + 2))

\* The relative branch i, stepped in CPU c, is taken.
Taken(c, i) ==
    CASE i.op = "SJMP" -> TRUE
      [] i.op = "JC" -> c.carry_flag /= 0
      [] i.op = "JNC" -> c.carry_flag = 0
      [] i.op = "JZ" -> c.accumulator = 0
      [] i.op = "JNZ" -> c.accumulator /= 0
      [] i.op = "JNB" -> load(c, i.o1).res = "ok" /\ load(c, i.o1).v = 0
      [] i.op = "CJNE" -> /\ load(c, i.o1).res = "ok"
                          /\ load(c, i.o2).res = "ok"
                          /\ load(c, i.o1).v /= load(c, i.o2).v
      [] i.op = "DJNZ" -> /\ load(c, i.o1).res = "ok"
                          /\ load(c, i.o1).v \notin {0, 1}
      [] OTHER -> FALSE

\* C20 (as stated): a taken relative branch at p returns Ok and leaves
\* program_counter = (p + length + rel8) mod 65536; so JZ -2 with a zero
\* accumulator keeps program_counter = p step after step.
C20_RelativeBranch ==
    /\ (steps > 0 /\ Taken(prev, InsAt(prev)))
          => /\ outcome.res = "ok"
             /\ cpu.program_counter
                  = (prev.program_counter + InsAt(prev).len
                       + InsAt(prev).rel) % 65536
    /\ (InsAt(start).op = "JZ" /\ InsAt(start).rel = -2
          /\ start.accumulator = 0)
          => cpu.program_counter = start.program_counter

(* --------------------- claims, Spec: the dispatch --------------------- *)

ExecuteError == [res |-> "err", e |-> "unimplemented instruction (execute)"]

\* C30 (as stated): no step() whose decode succeeded returns the
\* 'unimplemented instruction (execute)' error.
C30_AllDecodedExecute == steps > 0 => outcome /= ExecuteError

(* ------------------ claims, Spec: integer arithmetic ------------------ *)

\* The messages of the aborts an overflow-checked build raises when a sum or
\* a difference leaves its integer type.
ArithmeticAborts ==
    {"attempt to add with overflow", "attempt to subtract with overflow"}

\* C31 (as stated): a step() entered with stack_pointer < 127 never aborts
\* on an arithmetic overflow, whatever the build.
C31_NoOverflow ==
    (steps > 0 /\ prev.stack_pointer < 127)
        => ~(outcome.res = "panic" /\ outcome.e \in ArithmeticAborts)

(* --------------------- claims, Spec: the resolver --------------------- *)

\* The errors with which load and store reject a register or an addressing
\* mode they do not support.
UnsupportedErrors ==
    {"unsupported register",
     "unsupported register for indirect load",
     "unsupported register for indirect load (external)",
     "unsupported register for indirect load (code)",
     "unsupported register for indirect store",
     "unsupported addressing mode (store)"}

\* The operands the arm of step() for instruction i passes to load and to
\* store.
OperandsLoaded(i) ==
    CASE i.op \in {"ADD", "ADDC", "SUBB", "DEC", "DJNZ", "JNB", "MOVC",
                   "PUSH"} -> {i.o1}
      [] i.op = "INC" -> {i.o1} \ {Register("DPTR")}
      [] i.op \in {"ANL", "ORL", "CJNE"} -> {i.o1, i.o2}
      [] i.op \in {"MOV", "MOVX"} -> {i.o2}
      [] OTHER -> {}
OperandsStored(i) ==
    CASE i.op \in {"ANL", "ORL", "CLR", "SETB", "DEC", "DJNZ", "POP", "MOV",
                   "MOVX"} -> {i.o1}
      [] i.op = "INC" -> {i.o1} \ {Register("DPTR")}
      [] OTHER -> {}

\* C34: no step() returns one of the resolver's unsupported-register or
\* unsupported-addressing-mode errors; and whatever instruction the decoder
\* returned, load and store accept every operand its arm passes to them,
\* also those a failed step did not get to.
C34_Supported ==
    steps > 0
        => /\ outcome.e \notin UnsupportedErrors
           /\ DecodeTable(OpcodeAt(prev), 0, 0).op /= "Undefined"
                 => /\ \A m \in OperandsLoaded(InsAt(prev)) :
                         load(prev, m).e \notin UnsupportedErrors
                    /\ \A m \in OperandsStored(InsAt(prev)) :
                         store(prev, m, 0).e \notin UnsupportedErrors

\* C34's case: ORL C, /0xFE was executed with the carry and the bit clear; it
\* loaded the carry and the complemented bit and stored the carry, now set.
C34_Witness ==
    /\ Executed("ORL")
    /\ OpcodeAt(prev) = 160
    /\ InsAt(prev).o1 = Register("C")
    /\ InsAt(prev).o2 = NotBit(254)
    /\ prev.carry_flag = 0
    /\ cpu.carry_flag = 1

(* ------------------- claims, Spec: jumps and NOP ---------------------- *)

\* The instructions that only decide where execution continues.
PureJumps == {"NOP", "LJMP", "AJMP", "SJMP", "JC", "JNC", "JZ", "JNZ", "JNB"}

\* C35: a step() given NOP, LJMP, AJMP, SJMP, JC, JNC, JZ, JNZ or JNB leaves
\* accumulator, b_register, the three flags, stack_pointer, data_pointer and
\* bank as they were, makes no write_memory call and changes no cell of the
\* collaborator.
C35_JumpFrame ==
    (steps > 0 /\ InsAt(prev).op \in PureJumps)
        => /\ cpu.accumulator = prev.accumulator
           /\ cpu.b_register = prev.b_register
           /\ cpu.carry_flag = prev.carry_flag
           /\ cpu.auxillary_carry_flag = prev.auxillary_carry_flag
           /\ cpu.overflow_flag = prev.overflow_flag
           /\ cpu.stack_pointer = prev.stack_pointer
           /\ cpu.data_pointer = prev.data_pointer
           /\ cpu.bank = prev.bank
           /\ cpu.memory.wlog = <<>>
           /\ cpu.memory.cells = prev.memory.cells

\* C35's case: JC +35 at 0 was taken with the carry set, and the carry and
\* the accumulator are still what they were.
C35_Witness ==
    /\ Executed("JC")
    /\ prev.program_counter = 0
    /\ prev.carry_flag = 1
    /\ prev.accumulator = 127
    /\ cpu.program_counter = 37
    /\ cpu.carry_flag = 1
    /\ cpu.accumulator = 127

(* -------------------- claims, Spec: instruction length ---------------- *)

\* Instruction i, stepped in CPU c, transfers control: a jump, call or
\* return, or a conditional branch that is taken.  A DJNZ of 0 is taken
\* where the step completes: `data - 1` wraps to 255 without overflow checks.
Transfers(c, i) ==
    \/ i.op \in {"AJMP", "LJMP", "ACALL", "LCALL", "RET", "RETI"}
    \/ Taken(c, i)
    \/ i.op = "DJNZ" /\ load(c, i.o1).res = "ok" /\ load(c, i.o1).v = 0

MemoryCalls == cpu.memory.reads + Len(cpu.memory.wlog)

\* C28: a step() makes at most 6 read_memory/write_memory calls, the opcode
\* and immediate fetches included.
C28_MemoryCalls == steps > 0 => MemoryCalls <= 6

\* C28's case: INC @R0 was executed with five calls: the opcode fetch, R0
\* and the cell read by the load, R0 read again and the cell written by the
\* store.
C28_Witness ==
    /\ Executed("INC")
    /\ OpcodeAt(prev) = 6
    /\ cpu.memory.reads = 4
    /\ Len(cpu.memory.wlog) = 1
    /\ MemoryCalls = 5

(* ------------- claims, SpecRoundTrip: the register banks -------------- *)

\* The bytes stored through a register and through its direct address.
BankedData == {0, 37, 255}

\* C25: for n in 0..7, loading Register(Rn), loading Direct(bank_base + n)
\* and read_memory(InternalData(bank_base + n)) return the same, and storing
\* through Register(Rn) and through Direct(bank_base + n) make the same
\* write_memory call (same address, same byte) and leave the same CPU.
C25_BankedRegisters ==
    \A n \in 0..7 :
        LET rn == Register(RegisterNames[n + 1])
            dir == Direct(BankBase(cpu) + n)
            cell == InternalData(BankBase(cpu) + n)
        IN /\ load(cpu, rn) = load(cpu, dir)
           /\ load(cpu, rn) = read_memory(cpu, cell)
           /\ load(cpu, rn).res = "ok"
           /\ \A data \in BankedData :
                /\ store(cpu, rn, data) = store(cpu, dir, data)
                /\ store(cpu, rn, data) = write_memory(cpu, cell, data)
                /\ store(cpu, rn, data).res = "ok"

\* C25's case: 0x25 was stored through Register(R2) and is what Direct(2) and
\* InternalData(2) now load, unlike the other registers' cells.
C25_Witness ==
    /\ Stored
    /\ call.mode = Register("R2")
    /\ call.data = 37
    /\ load(cpu, Direct(BankBase(cpu) + 2)).v = 37
    /\ read_memory(cpu, InternalData(BankBase(cpu) + 2)).v = 37
    /\ load(prev, Direct(BankBase(prev) + 2)).v = 17
    /\ load(cpu, Register("R3")).v = 24

(* --------------------------- claims, SpecADDC ------------------------- *)

\* C26 (as stated): with c the carry-in, ADDC leaves accumulator
\* = (A + op + c) mod 256, carry_flag = 1 exactly when A + op + c > 255, and
\* the auxiliary carry = 1 exactly when (A & 0xF) + (op & 0xF) + c > 0x0F.
C26_ADDC ==
    Executed("ADDC")
        => LET c == prev.carry_flag % 2
           IN /\ cpu.accumulator = (prev.accumulator + PrevOperand + c) % 256
              /\ cpu.carry_flag
                   = IF prev.accumulator + PrevOperand + c > 255
                     THEN 1 ELSE 0
              /\ cpu.auxillary_carry_flag
                   = IF (prev.accumulator % 16) + (PrevOperand % 16) + c > 15
                     THEN 1 ELSE 0

(* --------------- claims, SpecRoundTrip: bit-space stores -------------- *)

\* The data a bit is stored with: zero, one and other nonzero bytes.
BitData == {0, 1, 128, 255}

\* CPU `after` differs from CPU `before` in nothing but bit b & 7 of
\* InternalData(0x20 + (b >> 3)), which is 1 when data is nonzero and 0 when
\* it is zero; the collaborator's call log aside.
OnlyBitChanged(before, after, b, data) ==
    LET cell == InternalData(32 + (b \div 8))
        old == before.memory.cells[cell]
        now == after.memory.cells[cell]
    IN /\ now \in Byte
       /\ BitOf(now, b % 8) = (IF data /= 0 THEN 1 ELSE 0)
       /\ \A n \in (0..7) \ {b % 8} : BitOf(now, n) = BitOf(old, n)
       /\ [after.memory.cells EXCEPT ![cell] = old] = before.memory.cells
       /\ Registers(after) = Registers(before)

\* C29: a store to Bit(b), b < 128, returns Ok having changed nothing but
\* bit b & 7 of InternalData(0x20 + (b >> 3)), set when the data is nonzero
\* and cleared when it is zero: the other seven bits, every other cell of the
\* collaborator and every CPU register are as before.  So it is for the store
\* the resolver was asked for, and for a store of any byte of BitData to any
\* bit in the starting state.
C29_BitStore ==
    /\ (steps = 1 /\ call.mode.k = "Bit" /\ call.mode.v < 128)
          => /\ call.stored = "ok"
             /\ OnlyBitChanged(prev, cpu, call.mode.v, call.data)
             /\ Len(cpu.memory.wlog) = 1
             /\ cpu.memory.wlog[1][1] = InternalData(32 + (call.mode.v \div 8))
    /\ steps = 0
          => \A b \in 0..127 :
               \A data \in BitData :
                 /\ store(cpu, Bit(b), data).res = "ok"
                 /\ OnlyBitChanged(cpu, store(cpu, Bit(b), data).s, b, data)

\* C29's case: bit 0x0A was stored with 1; InternalData(0x21) went from 0xEA
\* to 0xEE and its neighbours kept their bytes.
C29_Witness ==
    /\ Stored
    /\ call.mode = Bit(10)
    /\ call.data = 1
    /\ prev.memory.cells[InternalData(33)] = 234
    /\ cpu.memory.cells[InternalData(33)] = 238
    /\ cpu.memory.cells[InternalData(32)] = prev.memory.cells[InternalData(32)]
    /\ cpu.memory.cells[InternalData(34)] = prev.memory.cells[InternalData(34)]
    /\ Registers(cpu) = Registers(prev)

(* ---------------- SpecMOVC: a table lookup in code space -------------- *)

\* What code space holds at address a, outside the program.
TableByte(a) == (a * 5 + 171) % 256

\* Table bases and indices tried, and where the MOVC sits.
TableBases == {0, 1024, 65280, 65535}
TableIndices == {0, 2, 255}
MovcPCs == {0, 256}

\* MOVC A, @A+DPTR (0x93) or MOVC A, @A+PC (0x83) at p, over a code space
\* backed wherever the lookup can land without leaving 0..0xFFFF.
InitMOVC ==
    \E opcode \in {147, 131}, p \in MovcPCs, dptr \in TableBases,
       a \in TableIndices, c \in {0, 1}, chk \in BOOLEAN :
        Setup([new(Memory(CodeAt(p, <<opcode>>)
                          @@ [x \in {Code(b + n) :
                                       b \in TableBases \cup {q + 1 : q \in MovcPCs},
                                       n \in TableIndices}
                                    \cap {Code(n) : n \in 0..65535}
                                |-> TableByte(x[2])]))
                 EXCEPT !.program_counter = p, !.data_pointer = dptr,
                        !.accumulator = a, !.carry_flag = c,
                        !.auxillary_carry_flag = 1 - c, !.overflow_flag = c,
                        !.stack_pointer = 7, !.b_register = 165], chk)

SpecMOVC == InitMOVC /\ [][Next]_vars

\* The last step() was given MOVC A, @A+DPTR with data_pointer + accumulator
\* inside code space, at a backed address.
C24_Pre ==
    /\ steps > 0
    /\ OpcodeAt(prev) = 147
    /\ prev.data_pointer + prev.accumulator <= 65535
    /\ CodeByte(prev, prev.data_pointer + prev.accumulator) >= 0

\* C24: MOVC A, @A+DPTR returns Ok with the accumulator holding the code byte
\* at data_pointer + the accumulator it found, program_counter one further,
\* and data_pointer, the flags, stack_pointer and b_register as before.
C24_MOVC ==
    C24_Pre
        => /\ outcome.res = "ok"
           /\ cpu.accumulator
                = CodeByte(prev, prev.data_pointer + prev.accumulator)
           /\ cpu.program_counter = prev.program_counter + 1
           /\ cpu.data_pointer = prev.data_pointer
           /\ cpu.carry_flag = prev.carry_flag
           /\ cpu.auxillary_carry_flag = prev.auxillary_carry_flag
           /\ cpu.overflow_flag = prev.overflow_flag
           /\ cpu.stack_pointer = prev.stack_pointer
           /\ cpu.b_register = prev.b_register

\* C24's case: the lookup of entry 2 of the table at 0x0400, from address 0.
C24_Witness ==
    /\ C24_Pre
    /\ steps = 1
    /\ prev.program_counter = 0
    /\ prev.data_pointer = 1024
    /\ prev.accumulator = 2
    /\ cpu.accumulator = TableByte(1026)
    /\ cpu.program_counter = 1


=============================================================================
